---- MODULE Spec2Model ----
(***************************************************************************)
(* Model of matching-cursor-sample/match_final.py: the proposal matching   *)
(* script that maps snapshot (source-B) and tally (source-A) records to    *)
(* forum proposals.  Text is a sequence of one-character strings, a value  *)
(* that may be None in the script is <<>> (None) or <<v>> (the value v),   *)
(* and a score is the exact fraction <<n, d>> in lowest terms.             *)
(***************************************************************************)
EXTENDS Integers, Sequences, FiniteSets, TLC

None == <<>>
Some(v) == <<v>>
Val(o) == o[1]

\* the sequence with the elements of f, f a function on 1..n
AsSeq(f) == f \o <<>>

Max(a, b) == IF a >= b THEN a ELSE b
Min(a, b) == IF a <= b THEN a ELSE b

(***************************************************************************)
(* Characters and the str / re primitives the script uses.                 *)
(***************************************************************************)
UpperCase == <<"A","B","C","D","E","F","G","H","I","J","K","L","M","N","O","P","Q","R","S","T","U","V","W","X","Y","Z">>
LowerCase == <<"a","b","c","d","e","f","g","h","i","j","k","l","m","n","o","p","q","r","s","t","u","v","w","x","y","z">>
DigitChars == <<"0","1","2","3","4","5","6","7","8","9">>
\* the characters of the model's texts, in code point order (for sorted())
CodeOrder == <<"\n"," ","!","#","&","'","(",")","+","-",".","/","0","1","2","3","4","5","6","7","8","9",":",";","A","B","C","D","E","F","G","H","I","J","K","L","M","N","O","P","Q","R","S","T","U","V","W","X","Y","Z","[","]","_","a","b","c","d","e","f","g","h","i","j","k","l","m","n","o","p","q","r","s","t","u","v","w","x","y","z">>

InSeq(c, s) == \E i \in 1..Len(s) : s[i] = c
IndexOf(c, s) == CHOOSE i \in 1..Len(s) : s[i] = c
Ord(c) == IndexOf(c, CodeOrder)

IsUpper(c) == InSeq(c, UpperCase)

lower_char(c) == IF IsUpper(c) THEN LowerCase[IndexOf(c, UpperCase)] ELSE c
\* str.lower()
lower(s) == AsSeq([i \in 1..Len(s) |-> lower_char(s[i])])

Drop(s, n) == SubSeq(s, n + 1, Len(s))
Take(s, n) == SubSeq(s, 1, Min(n, Len(s)))

\* p occurs in s starting at index i
MatchAt(s, p, i) == /\ i >= 1
                    /\ i + Len(p) - 1 <= Len(s)
                    /\ \A k \in 1..Len(p) : s[i + k - 1] = p[k]
StartsWith(s, p) == MatchAt(s, p, 1)
\* p in s
Contains(s, p) == \E i \in 1..(Len(s) - Len(p) + 1) : MatchAt(s, p, i)
\* re.search(p + '$', s): '$' matches at the end and before a final newline
EndsWithDollar(s, p) ==
    \/ MatchAt(s, p, Len(s) - Len(p) + 1)
    \/ /\ Len(s) >= 1
       /\ s[Len(s)] = "\n"
       /\ MatchAt(s, p, Len(s) - Len(p))
\* re.search(a + '.*' + b, s): a, then b later with no newline in between
ContainsThen(s, a, b) ==
    \E i \in 1..(Len(s) - Len(a) + 1) :
        /\ MatchAt(s, a, i)
        /\ \E j \in (i + Len(a))..(Len(s) - Len(b) + 1) :
              /\ MatchAt(s, b, j)
              /\ \A k \in (i + Len(a))..(j - 1) : s[k] # "\n"

\* number of leading characters of s, from index i on, that are in the class
RECURSIVE RunLen(_, _, _)
RunLen(s, i, cls) ==
    IF i <= Len(s) /\ s[i] \in cls THEN 1 + RunLen(s, i + 1, cls) ELSE 0

\* \s
SpaceSet == {" ", "\t", "\n", "\r", "\f"}
\* \d
DigitSet == {DigitChars[i] : i \in 1..Len(DigitChars)}
\* \w
WordSet == {UpperCase[i] : i \in 1..26} \cup {LowerCase[i] : i \in 1..26}
              \cup DigitSet \cup {"_"}
\* [a-zA-Z0-9_-]
SlugSet == WordSet \cup {"-"}

\* re.sub(cls + '+', rep, s): every maximal run of class characters becomes rep
SquashRuns(s, cls, rep) ==
    LET keep == SelectSeq([i \in 1..Len(s) |-> i],
                          LAMBDA i : ~(s[i] \in cls /\ i > 1 /\ s[i - 1] \in cls))
    IN  AsSeq([k \in 1..Len(keep) |-> IF s[keep[k]] \in cls THEN rep ELSE s[keep[k]]])

\* str.strip(): cls is the set of characters stripped from both ends
Strip(s, cls) ==
    LET inner == {i \in 1..Len(s) : s[i] \notin cls}
    IN  IF inner = {} THEN <<>>
        ELSE SubSeq(s, CHOOSE i \in inner : \A j \in inner : i <= j,
                       CHOOSE i \in inner : \A j \in inner : i >= j)

(***************************************************************************)
(* html.unescape, for the named references the model's texts can hold      *)
(* (each also accepted without its semicolon, as html.unescape does).      *)
(***************************************************************************)
Entities == << <<<<"&","a","m","p">>, "&">>, <<<<"&","l","t">>, "<">>, <<<<"&","g","t">>, ">">>, <<<<"&","q","u","o","t">>, "\"">> >>

RECURSIVE unescape_from(_, _)
unescape_from(s, i) ==
    IF i > Len(s) THEN <<>>
    ELSE IF \E e \in 1..Len(Entities) : MatchAt(s, Entities[e][1], i)
         THEN LET e == CHOOSE e \in 1..Len(Entities) : MatchAt(s, Entities[e][1], i)
                  n == Len(Entities[e][1])
                  semi == IF i + n <= Len(s) /\ s[i + n] = ";" THEN 1 ELSE 0
              IN  <<Entities[e][2]>> \o unescape_from(s, i + n + semi)
         ELSE <<s[i]>> \o unescape_from(s, i + 1)
unescape(s) == unescape_from(s, 1)

(***************************************************************************)
(* normalize_title, title_to_slug                                          *)
(***************************************************************************)
\* alternatives of the first prefix pattern, in pattern order (IGNORECASE)
PrefixTags == << <<"n","o","n","-","c","o","n","s","t","i","t","u","t","i","o","n","a","l">>, <<"n","o","n","c","o","n","s","t","i","t","u","t","i","o","n","a","l">>, <<"c","o","n","s","t","i","t","u","t","i","o","n","a","l">>,
                 <<"r","f","c">>, <<"a","i","p">>, <<"d","r","a","f","t">>, <<"f","i","n","a","l">> >>

\* \s*:?\s* from index i: number of characters matched
ColonTail(s, i) ==
    LET w1 == RunLen(s, i, SpaceSet)
        c  == IF i + w1 <= Len(s) /\ s[i + w1] = ":" THEN 1 ELSE 0
        w2 == RunLen(s, i + w1 + c, SpaceSet)
    IN  w1 + c + w2

\* ^\[?(Non-?Constitutional|...|FINAL)\]?\s*:?\s*
strip_tag_prefix(s) ==
    LET l  == lower(s)
        b  == IF Len(s) >= 1 /\ s[1] = "[" THEN 1 ELSE 0
        hit(o) == {t \in 1..Len(PrefixTags) : MatchAt(l, PrefixTags[t], o + 1)}
        o  == IF hit(b) # {} THEN b ELSE 0
    IN  IF hit(o) = {} THEN s
        ELSE LET t  == CHOOSE t \in hit(o) : \A u \in hit(o) : t <= u
                 e  == o + Len(PrefixTags[t])
                 rb == IF e + 1 <= Len(s) /\ s[e + 1] = "]" THEN 1 ELSE 0
             IN  Drop(s, e + rb + ColonTail(s, e + rb + 1))

\* ^Proposal\s*:?\s*
strip_proposal_prefix(s) ==
    IF StartsWith(lower(s), <<"p","r","o","p","o","s","a","l">>)
    THEN Drop(s, 8 + ColonTail(s, 9))
    ELSE s

\* ^#\s*
strip_hash_prefix(s) ==
    IF StartsWith(s, <<"#">>) THEN Drop(s, 1 + RunLen(s, 2, SpaceSet)) ELSE s

\* ^\[?UPDATED\]?\s*
strip_updated_prefix(s) ==
    LET l == lower(s)
        b == IF Len(s) >= 1 /\ s[1] = "[" /\ MatchAt(l, <<"u","p","d","a","t","e","d">>, 2) THEN 1 ELSE 0
    IN  IF MatchAt(l, <<"u","p","d","a","t","e","d">>, b + 1)
        THEN LET e  == b + 7
                 rb == IF e + 1 <= Len(s) /\ s[e + 1] = "]" THEN 1 ELSE 0
             IN  Drop(s, e + rb + RunLen(s, e + rb + 1, SpaceSet))
        ELSE s

normalize_title(title) ==
    IF title = <<>> THEN <<>>
    ELSE lower(Strip(SquashRuns(
             strip_updated_prefix(strip_updated_prefix(strip_hash_prefix(
                 strip_proposal_prefix(strip_tag_prefix(unescape(title)))))),
             SpaceSet, " "), SpaceSet))

\* the characters re.sub(r'[^\w\s-]', '', s) keeps
keep_slug_chars(s) == SelectSeq(s, LAMBDA c : c \in WordSet \cup SpaceSet \cup {"-"})

title_to_slug(title) ==
    IF title = <<>> THEN <<>>
    ELSE Strip(SquashRuns(SquashRuns(keep_slug_chars(lower(unescape(title))),
                                     SpaceSet, "-"),
                          {"-"}, "-"),
               {"-"})

(***************************************************************************)
(* extract_forum_links: (slug, topic_id) of every non-overlapping match of *)
(* forum\.arbitrum\.foundation/t/([a-zA-Z0-9_-]+)(?:/(\d+))? (IGNORECASE), *)
(* in order of appearance, the slug lower-cased.                           *)
(***************************************************************************)
ForumPrefix == <<"f","o","r","u","m",".","a","r","b","i","t","r","u","m",".","f","o","u","n","d","a","t","i","o","n","/","t","/">>

RECURSIVE links_from(_, _, _)
links_from(t, l, i) ==
    IF i > Len(t) THEN <<>>
    ELSE IF MatchAt(l, ForumPrefix, i) /\ RunLen(t, i + Len(ForumPrefix), SlugSet) >= 1
         THEN LET s0 == i + Len(ForumPrefix)
                  e  == s0 + RunLen(t, s0, SlugSet)
                  d  == IF e <= Len(t) /\ t[e] = "/" THEN RunLen(t, e + 1, DigitSet) ELSE 0
                  topic_id == IF d >= 1 THEN Some(SubSeq(t, e + 1, e + d)) ELSE None
                  next == IF d >= 1 THEN e + 1 + d ELSE e
              IN  << <<lower(SubSeq(t, s0, e - 1)), topic_id>> >> \o links_from(t, l, next)
         ELSE links_from(t, l, i + 1)

extract_forum_links(text) ==
    IF text = <<>> THEN <<>> ELSE links_from(text, lower(text), 1)

(***************************************************************************)
(* Category patterns                                                       *)
(***************************************************************************)
StipPatterns == << <<"S","T","I","P"," ","P","r","o","p","o","s","a","l"," ","-"," ","R","o","u","n","d"," ","1">>, <<"S","T","I","P"," ","A","d","d","e","n","d","u","m">>,
                   <<"L","T","I","P","P"," ","C","o","u","n","c","i","l"," ","R","e","c","o","m","m","e","n","d","e","d"," ","P","r","o","p","o","s","a","l">>, <<"S","T","I","P"," ","B","r","i","d","g","e"," ","C","h","a","l","l","e","n","g","e">>,
                   <<"L","T","I","P","P"," ","[","P","o","s","t"," ","C","o","u","n","c","i","l"," ","F","e","e","d","b","a","c","k","]">> >>

is_stip_ltipp_protocol(title) ==
    /\ title # <<>>
    /\ \E p \in 1..Len(StipPatterns) : EndsWithDollar(title, StipPatterns[p])

is_election(title) ==
    /\ title # <<>>
    /\ LET l == lower(title)
       IN  \/ ContainsThen(l, <<"s","e","c","u","r","i","t","y"," ","c","o","u","n","c","i","l">>, <<"e","l","e","c","t","i","o","n">>)
           \/ ContainsThen(l, <<"r","e","c","o","n","f","i","r","m","a","t","i","o","n">>, <<"c","o","u","n","c","i","l">>)
           \/ ContainsThen(l, <<"d",".","a",".","o",".">>, <<"e","l","e","c","t","i","o","n","s">>)
           \/ Contains(l, <<"d","o","m","a","i","n"," ","a","l","l","o","c","a","t","o","r"," ","e","l","e","c","t","i","o","n">>)
           \/ Contains(l, <<"c","o","u","n","c","i","l"," ","e","l","e","c","t","i","o","n">>)
           \/ ContainsThen(l, <<"a","r","d","c">>, <<"e","l","e","c","t","i","o","n">>)
           \/ Contains(l, <<"a","d","v","i","s","o","r"," ","e","l","e","c","t","i","o","n","s">>)
           \/ ContainsThen(l, <<"e","l","e","c","t","i","o","n"," ","o","f">>, <<"m","e","m","b","e","r","s">>)
           \/ ContainsThen(l, <<"e","l","e","c","t","i","o","n"," ","o","f">>, <<"m","a","n","a","g","e","r">>)

(***************************************************************************)
(* Scores: exact fractions <<n, d>>, d > 0, in lowest terms.               *)
(***************************************************************************)
RECURSIVE Gcd(_, _)
Gcd(a, b) == IF b = 0 THEN a ELSE Gcd(b, a % b)
Frac(n, d) == IF n = 0 THEN <<0, 1>> ELSE <<n \div Gcd(n, d), d \div Gcd(n, d)>>
Score(n) == <<n, 1>>
GE(x, y) == x[1] * y[2] >= y[1] * x[2]
GT(x, y) == x[1] * y[2] > y[1] * x[2]
Times(x, n, d) == Frac(x[1] * n, x[2] * d)
MaxScore(x, y) == IF GE(x, y) THEN x ELSE y

(***************************************************************************)
(* rapidfuzz.fuzz: ratio, partial_ratio, token_set_ratio                   *)
(***************************************************************************)
\* row i of the longest-common-subsequence table from row i - 1; entry j + 1
\* is the length for a[1..i] and b[1..j]
lcs_row(c, b, prev) ==
    AsSeq([j1 \in 1..(Len(b) + 1) |->
             LET hits == {k \in 1..(j1 - 1) : b[k] = c}
             IN  IF hits = {} THEN prev[j1]
                 ELSE Max(prev[j1], 1 + prev[CHOOSE k \in hits : \A m \in hits : k >= m])])

RECURSIVE lcs_rows(_, _, _, _)
lcs_rows(a, b, i, prev) ==
    IF i > Len(a) THEN prev[Len(b) + 1]
    ELSE lcs_rows(a, b, i + 1, lcs_row(a[i], b, prev))

\* length of the longest common subsequence
lcs_len(a, b) == lcs_rows(a, b, 1, AsSeq([j \in 1..(Len(b) + 1) |-> 0]))

\* insertions + deletions turning a into b
indel_distance(a, b) == Len(a) + Len(b) - 2 * lcs_len(a, b)

\* 100 - 100 * dist / lensum
norm_distance(dist, lensum) ==
    IF lensum = 0 THEN Score(100) ELSE Frac(100 * (lensum - dist), lensum)

\* fuzz.ratio
ratio(a, b) == norm_distance(indel_distance(a, b), Len(a) + Len(b))

\* the greatest score of a non-empty set of scores
MaxOf(S) == CHOOSE x \in S : \A y \in S : GE(x, y)

\* best ratio of s1 against the windows of s2 (len(s1) <= len(s2))
partial_ratio_impl(s1, s2) ==
    LET len1 == Len(s1)
        len2 == Len(s2)
        cs   == {s1[i] : i \in 1..len1}
        pre  == {i \in 1..(len1 - 1) : s2[i] \in cs}
        mid  == {i \in 0..(len2 - len1 - 1) : i + len1 >= 1 /\ s2[i + len1] \in cs}
        suf  == {i \in (len2 - len1)..(len2 - 1) : s2[i + 1] \in cs}
    IN  MaxOf({Score(0)}
              \cup {ratio(s1, SubSeq(s2, 1, i)) : i \in pre}
              \cup {ratio(s1, SubSeq(s2, i + 1, i + len1)) : i \in mid}
              \cup {ratio(s1, SubSeq(s2, i + 1, len2)) : i \in suf})

\* the second pass, for strings of equal length, after the first gave res
partial_ratio_sym(s1, s2, res) ==
    IF res # Score(100) /\ Len(s1) = Len(s2)
    THEN MaxScore(res, partial_ratio_impl(s2, s1))
    ELSE res

\* fuzz.partial_ratio
partial_ratio(s1, s2) ==
    IF s1 = <<>> /\ s2 = <<>> THEN Score(100)
    ELSE IF Len(s1) <= Len(s2) THEN partial_ratio_sym(s1, s2, partial_ratio_impl(s1, s2))
    ELSE partial_ratio_impl(s2, s1)

\* str.split(): the whitespace-separated tokens, as a set
Tokens(s) ==
    {SubSeq(s, i, j) : <<i, j>> \in
        {ij \in (1..Len(s)) \X (1..Len(s)) :
            /\ ij[1] <= ij[2]
            /\ \A k \in ij[1]..ij[2] : s[k] \notin SpaceSet
            /\ (ij[1] = 1 \/ s[ij[1] - 1] \in SpaceSet)
            /\ (ij[2] = Len(s) \/ s[ij[2] + 1] \in SpaceSet)}}

\* a < b in str order (code points, then length)
RECURSIVE StrLess(_, _, _)
StrLess(a, b, i) ==
    IF i > Len(a) THEN i <= Len(b)
    ELSE IF i > Len(b) THEN FALSE
    ELSE IF a[i] = b[i] THEN StrLess(a, b, i + 1)
    ELSE Ord(a[i]) < Ord(b[i])

RECURSIVE JoinSorted(_)
\* ' '.join(sorted(tokens))
JoinSorted(toks) ==
    IF toks = {} THEN <<>>
    ELSE LET m == CHOOSE m \in toks : \A o \in toks \ {m} : StrLess(m, o, 1)
         IN  IF toks = {m} THEN m ELSE m \o <<" ">> \o JoinSorted(toks \ {m})

\* the three candidate scores, from the joined difference strings and the
\* length of the joined intersection
token_set_scores(diff_ab_joined, diff_ba_joined, sect_len) ==
    LET ab_len      == Len(diff_ab_joined)
        ba_len      == Len(diff_ba_joined)
        sep         == IF sect_len # 0 THEN 1 ELSE 0
        sect_ab_len == sect_len + sep + ab_len
        sect_ba_len == sect_len + sep + ba_len
        result      == norm_distance(indel_distance(diff_ab_joined, diff_ba_joined),
                                     sect_ab_len + sect_ba_len)
        sect_ab_ratio == norm_distance(sep + ab_len, sect_len + sect_ab_len)
        sect_ba_ratio == norm_distance(sep + ba_len, sect_len + sect_ba_len)
    IN  IF sect_len = 0 THEN result
        ELSE MaxScore(MaxScore(result, sect_ab_ratio), sect_ba_ratio)

\* from the intersection and the two differences of the token sets
token_set_joined(intersect, diff_ab, diff_ba) ==
    IF intersect # {} /\ (diff_ab = {} \/ diff_ba = {}) THEN Score(100)
    ELSE token_set_scores(JoinSorted(diff_ab), JoinSorted(diff_ba),
                          Len(JoinSorted(intersect)))

\* from the two token sets
token_set_tokens(tokens_a, tokens_b) ==
    IF tokens_a = {} \/ tokens_b = {} THEN Score(0)
    ELSE token_set_joined(tokens_a \cap tokens_b, tokens_a \ tokens_b,
                          tokens_b \ tokens_a)

\* fuzz.token_set_ratio
token_set_ratio(s1, s2) ==
    IF s1 = <<>> \/ s2 = <<>> THEN Score(0)
    ELSE token_set_tokens(Tokens(s1), Tokens(s2))

(***************************************************************************)
(* Dictionaries keep insertion order: a sequence of <<key, value>> pairs   *)
(* with distinct keys; assigning to a present key replaces its value in    *)
(* place.                                                                  *)
(***************************************************************************)
dict_has(d, k) == \E n \in 1..Len(d) : d[n][1] = k
dict_get(d, k) == d[CHOOSE n \in 1..Len(d) : d[n][1] = k][2]
dict_set(d, k, v) ==
    IF dict_has(d, k)
    THEN AsSeq([n \in 1..Len(d) |-> IF d[n][1] = k THEN <<k, v>> ELSE d[n]])
    ELSE Append(d, <<k, v>>)

\* proposal_by_id = {p['id']: p for p in proposals}
RECURSIVE proposal_by_id_from(_, _, _)
proposal_by_id_from(ps, n, d) ==
    IF n > Len(ps) THEN d
    ELSE proposal_by_id_from(ps, n + 1, dict_set(d, ps[n].id, ps[n]))
proposal_by_id(ps) == proposal_by_id_from(ps, 1, <<>>)

\* if norm_title: proposal_slugs[title_to_slug(norm_title)] = p['id']
slug_index_norm(d, p, norm_title) ==
    IF norm_title # <<>> THEN dict_set(d, title_to_slug(norm_title), p.id) ELSE d

\* proposal_slugs[slug] = p['id'], then the entry of the normalized title
slug_index_title(d, p, title) ==
    slug_index_norm(dict_set(d, title_to_slug(title), p.id), p, normalize_title(title))

\* one iteration of the loop that builds proposal_slugs
slug_index_step(d, p) == slug_index_title(d, p, unescape(p.title))

(***************************************************************************)
(* find_proposal_by_slug                                                   *)
(***************************************************************************)
RECURSIVE slug_scan(_, _, _, _, _)
\* slug_scan_step with >= for >: the last key at the best score wins
slug_scan_step_LastWins(d, slug, n, best_match, best_score, score) ==
    IF GE(score, best_score)
    THEN slug_scan(d, slug, n + 1, Some(d[n][2]), score)
    ELSE slug_scan(d, slug, n + 1, best_match, best_score)

\* if score > best_score: best_score = score; best_match = p_id
slug_scan_step(d, slug, n, best_match, best_score, score) ==
    IF GT(score, best_score)
    THEN slug_scan(d, slug, n + 1, Some(d[n][2]), score)
    ELSE slug_scan(d, slug, n + 1, best_match, best_score)

\* the fuzzy loop over proposal_slugs.items(), from entry n on
slug_scan(d, slug, n, best_match, best_score) ==
    IF n > Len(d) THEN <<best_match, best_score>>
    ELSE slug_scan_step(d, slug, n, best_match, best_score, ratio(slug, d[n][1]))

\* the return statements after the loop: best is <<best_match, best_score>>
slug_match_result(best) ==
    IF GE(best[2], Score(70)) THEN best ELSE <<None, best[2]>>

\* the direct match and the fuzzy match of the lower-cased slug
slug_lookup(d, slug) ==
    IF dict_has(d, slug) THEN <<Some(dict_get(d, slug)), Score(100)>>
    ELSE slug_match_result(slug_scan(d, slug, 1, None, Score(0)))

find_proposal_by_slug(d, slug0) ==
    IF slug0 = <<>> THEN <<None, Score(0)>> ELSE slug_lookup(d, lower(slug0))

(***************************************************************************)
(* find_best_title_match                                                   *)
(***************************************************************************)
\* max(score1, score2 * 0.95, score3 * 0.9)
combined_score(norm_title, p_norm) ==
    MaxScore(MaxScore(ratio(norm_title, p_norm),
                      Times(partial_ratio(norm_title, p_norm), 19, 20)),
             Times(token_set_ratio(norm_title, p_norm), 9, 10))

RECURSIVE title_scan(_, _, _, _, _)
\* if score > best_score: best_score = score; best_match = p
title_scan_step(ps, norm_title, n, best_match, best_score, score) ==
    IF GT(score, best_score)
    THEN title_scan(ps, norm_title, n + 1, n, score)
    ELSE title_scan(ps, norm_title, n + 1, best_match, best_score)

\* the loop over proposals, from entry n on; best_match is an index or 0
title_scan(ps, norm_title, n, best_match, best_score) ==
    IF n > Len(ps) THEN <<best_match, best_score>>
    ELSE title_scan_step(ps, norm_title, n, best_match, best_score,
                         combined_score(norm_title, normalize_title(ps[n].title)))

\* the return statement: best is <<best_match, best_score>>
title_match_result(ps, best, min_score) ==
    IF GE(best[2], Score(min_score))
    THEN <<Some(ps[best[1]].id), Some(unescape(ps[best[1]].title)), best[2]>>
    ELSE <<None, None, best[2]>>

find_best_title_match(ps, title, min_score) ==
    IF title = <<>> THEN <<None, None, Score(0)>>
    ELSE title_match_result(ps, title_scan(ps, normalize_title(title), 1, 0, Score(0)),
                            min_score)

\* the truth value of an optional id: None and '' are false
Truthy(o) == o # None /\ Val(o) # ""

\* s.get(field) or ''
OrEmpty(o) == IF o = None THEN <<>> ELSE Val(o)

(***************************************************************************)
(* Inputs.  The proposals file, and the records the two stage files are    *)
(* drawn from (title, body or description, author_name; None = absent).    *)
(***************************************************************************)
\* total number of records in the two stage files
MaxRecords == 2
\* length of the slugs resolved in SlugSpec
MaxSlugLen == 4

LinkTo(slug) == ForumPrefix \o slug

Universes ==
    { << [id |-> "P1", title |-> <<"G","a","s"," ","F","e","e"," ","C","u","t">>],
         [id |-> "P2", title |-> <<"[","R","F","C","]"," ","T","r","e","a","s","u","r","y"," ","P","l","a","n">>] >>,
      << [id |-> "08bc7918-8046-444c-b689-ebea647cb0ee",
          title |-> <<"S","a","f","e","g","u","a","r","d","i","n","g"," ","S","o","f","t","w","a","r","e"," ","D","e","v","e","l","o","p","e","r","s">>],
         [id |-> "P2", title |-> <<"T","r","e","a","s","u","r","y"," ","&","a","m","p",";"," ","P","l","a","n">>],
         [id |-> "P3", title |-> <<"P","r","o","p","o","s","a","l",":"," ","T","r","e","a","s","u","r","y"," ","P","l","a","n">>] >> }

\* a record without a proposal_id key (a key of a record is None when the
\* record lacks it and Some(v) when it holds the value v)
Rec(title, text) == [title |-> title, text |-> text, author_name |-> Some(<<"a","l">>),
                     proposal_id |-> None]
\* the record r with the key proposal_id already holding v
WithProposalId(r, v) == [r EXCEPT !.proposal_id = Some(v)]

SnapshotPool ==
    { Rec(Some(<<"G","a","s"," ","F","e","e"," ","C","u","t">>), Some(LinkTo(<<"t","r","e","a","s","u","r","y","-","p","l","a","n","/","1","2">>))),
      Rec(Some(<<"G","a","s"," ","F","e","e"," ","C","u","t">>), None),
      Rec(Some(<<"V","o","t","e"," ","7">>), Some(LinkTo(<<"T","r","e","a","s","u","r","y","-","P","l","a","n">>))),
      Rec(Some(<<"G","a","s"," ","P","r","i","c","e"," ","C","a","p">>), None),
      Rec(Some(<<"G","a","s"," ","P","r","i","c","e"," ","C","a","p">>), Some(LinkTo(<<"g","a","s","-","f","e","e","z","z">>))),
      Rec(Some(<<"V","o","t","e"," ","7">>), Some(LinkTo(<<"t","h","e","-","g","a","s","-","f","e","e","s">>))),
      Rec(Some(<<"V","o","t","e"," ","7">>), Some(LinkTo(<<"g","a","s","-","t","a","x">>))),
      Rec(Some(<<"F","e","e"," ","M","a","r","k","e","t">>), Some(LinkTo(<<"t","h","e","-","g","a","s","-","f","e","e","s">>))),
      Rec(Some(<<"F","o","o"," ","S","T","I","P"," ","A","d","d","e","n","d","u","m">>), Some(LinkTo(<<"t","r","e","a","s","u","r","y","-","p","l","a","n">>))),
      Rec(Some(<<"C","o","u","n","c","i","l"," ","E","l","e","c","t","i","o","n">>), Some(LinkTo(<<"t","r","e","a","s","u","r","y","-","p","l","a","n">>))),
      Rec(Some(<<"C","o","u","n","c","i","l"," ","E","l","e","c","t","i","o","n",":"," ","S","a","f","e","g","u","a","r","d","i","n","g"," ","S","o","f","t","w","a","r","e"," ","D","e","v","e","l","o","p","e","r","s">>), None),
      Rec(Some(<<"C","o","u","n","c","i","l"," ","E","l","e","c","t","i","o","n"," ","S","T","I","P"," ","A","d","d","e","n","d","u","m">>), None),
      Rec(Some(<<"s","a","f","e","g","u","a","r","d","i","n","g"," ","s","o","f","t","w","a","r","e"," ","d","e","v","e","l","o","p","e","r","s">>), Some(LinkTo(<<"t","r","e","a","s","u","r","y","-","p","l","a","n">>))),
      Rec(Some(<<"A","r","b","O","S"," ","2","0"," ","U","p","g","r","a","d","e"," ","D","i","s","c","u","s","s","i","o","n">>), None),
      Rec(Some(<<>>), Some(LinkTo(<<"t","r","e","a","s","u","r","y","-","p","l","a","n">>))),
      Rec(None, None),
      Rec(Some(<<"V","o","t","e"," ","7">>), Some(LinkTo(<<"g","a","s","-","f","e","e","z","z">>) \o <<" ">> \o LinkTo(<<"t","r","e","a","s","u","r","y","-","p","l","a","n">>))),
      Rec(Some(<<"V","o","t","e"," ","7">>), Some(LinkTo(<<"t","r","e","a","s","u","r","y","-","p","l","a","n","-","s","t","i","p">>))),
      Rec(Some(<<"V","o","t","e"," ","7">>), Some(LinkTo(<<"t","r","e","a","s","u","r","y","-","p","l","a","n","-","s","t","i","p","/","3">>) \o <<" ">> \o LinkTo(<<"g","a","s","-","f","e","e","z","z">>))),
      WithProposalId(Rec(Some(<<"G","a","s"," ","F","e","e"," ","C","u","t">>), None), Some("P9")),
      WithProposalId(Rec(Some(<<"V","o","t","e"," ","7">>), None), Some("P9")) }

TallyPool ==
    { Rec(Some(<<"A","I","P"," ","4">>), Some(LinkTo(<<"t","r","e","a","s","u","r","y","-","p","l","a","n">>))),
      Rec(Some(<<>>), Some(LinkTo(<<"t","r","e","a","s","u","r","y","-","p","l","a","n">>))),
      Rec(None, None),
      Rec(Some(<<"a","b">>), None),
      Rec(Some(<<"a","b">>), Some(LinkTo(<<"t","r","e","a","s","u","r","y","-","p","l","a","n">>))),
      Rec(Some(<<"A","r","b","O","S"," ","2","0"," ","U","p","g","r","a","d","e"," ","D","i","s","c","u","s","s","i","o","n">>), Some(LinkTo(<<"t","r","e","a","s","u","r","y","-","p","l","a","n">>))),
      Rec(Some(<<"A","r","b","O","S"," ","5","1"," ","a","f","t","e","r"," ","a","r","b","o","s"," ","2","0">>), None),
      Rec(Some(<<"G","a","s"," ","F","e","e"," ","C","u","t">>), Some(LinkTo(<<"t","r","e","a","s","u","r","y","-","p","l","a","n">>))),
      Rec(Some(<<"G","a","s"," ","F","e","e"," ","C","u","t">>), None),
      Rec(Some(<<"G","a","s"," ","F","e","e"," ","C","u","t">>), Some(LinkTo(<<"t","h","e","-","g","a","s","-","f","e","e","s">>))),
      Rec(Some(<<"G","a","s"," ","P","r","i","c","e"," ","C","a","p">>), None),
      Rec(Some(<<"V","o","t","e"," ","7">>), Some(LinkTo(<<"g","a","s","-","f","e","e","z","z">>))),
      Rec(Some(<<"V","o","t","e"," ","7">>), None),
      Rec(Some(<<"V","o","t","e"," ","7">>), Some(LinkTo(<<"g","a","s","-","f","e","e","z","z">>) \o <<" ">> \o LinkTo(<<"t","r","e","a","s","u","r","y","-","p","l","a","n">>))),
      Rec(Some(<<"V","o","t","e"," ","7">>), Some(LinkTo(<<"t","r","e","a","s","u","r","y","-","p","l","a","n","-","s","t","i","p">>))),
      Rec(Some(<<"V","o","t","e"," ","7">>), Some(LinkTo(<<"t","r","e","a","s","u","r","y","-","p","l","a","n","-","s","t","i","p","/","3">>) \o <<" ">> \o LinkTo(<<"g","a","s","-","f","e","e","z","z">>))),
      WithProposalId(Rec(Some(<<"G","a","s"," ","F","e","e"," ","C","u","t">>), None), Some("P9")),
      WithProposalId(Rec(Some(<<"V","o","t","e"," ","7">>), None), Some("P9")) }

\* the records of the stage files: a pool entry with an id, the position
SnapshotRecord(k, r) == [id |-> k, title |-> r.title, body |-> r.text,
                         author_name |-> r.author_name, proposal_id |-> r.proposal_id]
TallyRecord(k, r) == [id |-> k, title |-> r.title, description |-> r.text,
                      author_name |-> r.author_name, proposal_id |-> r.proposal_id]
\* the stage files of n records
SnapshotStages(n) ==
    {AsSeq([k \in 1..n |-> SnapshotRecord(k, f[k])]) : f \in [1..n -> SnapshotPool]}
TallyStages(n) ==
    {AsSeq([k \in 1..n |-> TallyRecord(k, f[k])]) : f \in [1..n -> TallyPool]}
\* the pairs of stage files of at most MaxRecords records in all
StageFiles ==
    UNION {SnapshotStages(n) \X TallyStages(m) :
              <<n, m>> \in {nm \in (0..MaxRecords) \X (0..MaxRecords) : nm[1] + nm[2] <= MaxRecords}}

\* proposals files and slugs of SlugSpec
SlugUniverses ==
    { << [id |-> "P1", title |-> <<"a","b">>], [id |-> "P2", title |-> <<"b","a">>] >>,
      << [id |-> "P1", title |-> <<"a"," ","b">>], [id |-> "P2", title |-> <<"A","I","P"," ","a","-","b">>],
         [id |-> "P3", title |-> <<"b","a","b","-","a">>] >>,
      << [id |-> "P1", title |-> <<"!">>], [id |-> "P2", title |-> <<"a","-","a">>] >>,
      << >> }
SlugAlphabet == {"a", "b", "-"}
SlugInputs == UNION {[1..n -> SlugAlphabet] : n \in 1..MaxSlugLen}

(***************************************************************************)
(* Manual overrides, in declaration order                                  *)
(***************************************************************************)
MANUAL_OVERRIDES_TALLY ==
    << <<<<"A","r","b","O","S"," ","2","0">>, "8b760c14-6f2b-4069-b326-23653e5c20f9">>,
       <<<<"B","o","L","D"," ","+"," ","I","n","f","u","r","a"," ","N","o","v","a"," ","V","a","l","i","d","a","t","o","r">>, "4c1d960e-0ff6-47ba-92cf-d0612f84d2f6">>,
       <<<<"S","u","b","s","i","d","y"," ","F","u","n","d"," ","P","r","o","p","o","s","a","l"," ","f","r","o","m"," ","t","h","e"," ","A","D","P","C">>, "5b5c2bee-ea99-411a-afbb-a1df3f8d1b11">>,
       <<<<"A","r","b","O","S"," ","5","1">>, "a952f794-6c33-453b-9e30-83e67dda98e2">>,
       <<<<"S","a","f","e","g","u","a","r","d","i","n","g"," ","S","o","f","t","w","a","r","e"," ","D","e","v","e","l","o","p","e","r","s">>, "08bc7918-8046-444c-b689-ebea647cb0ee">> >>

MANUAL_OVERRIDES_SNAPSHOT ==
    << <<<<"S","a","f","e","g","u","a","r","d","i","n","g"," ","S","o","f","t","w","a","r","e"," ","D","e","v","e","l","o","p","e","r","s">>, "08bc7918-8046-444c-b689-ebea647cb0ee">> >>

\* override_lookup without the break: the last key that occurs wins
override_lookup_LastKey(table, title) ==
    LET l    == lower(title)
        hits == {n \in 1..Len(table) : Contains(l, lower(table[n][1]))}
    IN  IF hits = {} THEN None
        ELSE Some(table[CHOOSE n \in hits : \A m \in hits : n >= m][2])

\* the override loop: the id of the first key, in table order, whose
\* lower-cased text occurs in the lower-cased title; None without one
override_lookup(table, title) ==
    LET l    == lower(title)
        hits == {n \in 1..Len(table) : Contains(l, lower(table[n][1]))}
    IN  IF hits = {} THEN None
        ELSE Some(table[CHOOSE n \in hits : \A m \in hits : n <= m][2])

(***************************************************************************)
(* The body of the snapshot loop: <<bucket, result>> for one record.       *)
(***************************************************************************)
\* 'stip' in slug.split('-')
HasStipToken(slug) ==
    \E k \in 1..Len(slug) :
        /\ MatchAt(slug, <<"s","t","i","p">>, k)
        /\ (k = 1 \/ slug[k - 1] = "-")
        /\ (k + 4 > Len(slug) \/ slug[k + 4] = "-")

\* the links the snapshot loop skips as generic references
is_generic_link(slug) ==
    \/ Contains(slug, <<"s","h","o","r","t","-","t","e","r","m","-","i","n","c","e","n","t","i","v","e">>)
    \/ HasStipToken(slug)
    \/ Contains(slug, <<"a","r","b","i","t","r","u","m","-","a","r","b","o","s","-","u","p","g","r","a","d","e","s">>)

RECURSIVE best_link_scan(_, _, _, _)
\* if score > best_link_score: the link becomes the best link; r is the
\* <<p_id, score>> its slug resolved to
best_link_step(d, forum_links, n, best, r) ==
    IF GT(r[2], best[2])
    THEN best_link_scan(d, forum_links, n + 1, <<r[1], r[2], Some(forum_links[n][1])>>)
    ELSE best_link_scan(d, forum_links, n + 1, best)

\* the loop over forum_links, from link n on; best is
\* <<best_link_match, best_link_score, best_link_slug>>
best_link_scan(d, forum_links, n, best) ==
    IF n > Len(forum_links) THEN best
    ELSE IF is_generic_link(forum_links[n][1])
    THEN best_link_scan(d, forum_links, n + 1, best)
    ELSE best_link_step(d, forum_links, n, best,
                        find_proposal_by_slug(d, forum_links[n][1]))

\* f'forum_link_slug ({best_link_slug[:30]}...)'
snapshot_link_method(slug) == <<"f","o","r","u","m","_","l","i","n","k","_","s","l","u","g"," ","(">> \o Take(slug, 30) \o <<".",".",".",")">>

\* html.unescape(proposal_by_id[id]['title']) if id in proposal_by_id else None
link_matched_title(ps, id) ==
    IF dict_has(proposal_by_id(ps), id)
    THEN Some(unescape(dict_get(proposal_by_id(ps), id).title))
    ELSE None

\* snapshot_categorize with > 70 for >= 70
snapshot_categorize_Above70(result) ==
    IF Truthy(result.proposal_id)
    THEN IF GT(Val(result.score), Score(70))
         THEN IF Contains(OrEmpty(result.method), <<"f","o","r","u","m","_","l","i","n","k">>)
              THEN <<"matched_by_link", result>>
              ELSE <<"matched_by_title", result>>
         ELSE <<"low_confidence", [result EXCEPT !.category = "low_confidence"]>>
    ELSE <<"unmatched", result>>

\* the bucket of a snapshot result after the decision
snapshot_categorize(result) ==
    IF Truthy(result.proposal_id)
    THEN IF GE(Val(result.score), Score(70))
         THEN IF Contains(OrEmpty(result.method), <<"f","o","r","u","m","_","l","i","n","k">>)
              THEN <<"matched_by_link", result>>
              ELSE <<"matched_by_title", result>>
         ELSE <<"low_confidence", [result EXCEPT !.category = "low_confidence"]>>
    ELSE <<"unmatched", result>>

\* snapshot_decide with the two >= 70 branches swapped: the link goes first
snapshot_decide_LinkFirst(ps, result, tm, bl) ==
    IF Truthy(bl[1]) /\ GE(bl[2], Score(70))
    THEN [result EXCEPT !.proposal_id = bl[1], !.score = Some(bl[2]),
                        !.method = Some(snapshot_link_method(Val(bl[3]))),
                        !.matched_title = link_matched_title(ps, Val(bl[1]))]
    ELSE IF Truthy(tm[1]) /\ GE(tm[3], Score(55))
    THEN [result EXCEPT !.proposal_id = tm[1], !.matched_title = tm[2],
                        !.score = Some(tm[3]), !.method = Some(<<"t","i","t","l","e","_","f","u","z","z","y">>)]
    ELSE result

\* snapshot_decide that records the best title score also when nothing matched
snapshot_decide_KeepsScore(ps, result, tm, bl) ==
    IF Truthy(tm[1]) /\ GE(tm[3], Score(70))
    THEN [result EXCEPT !.proposal_id = tm[1], !.matched_title = tm[2],
                        !.score = Some(tm[3]), !.method = Some(<<"t","i","t","l","e","_","f","u","z","z","y">>)]
    ELSE IF Truthy(bl[1]) /\ GE(bl[2], Score(70))
    THEN [result EXCEPT !.proposal_id = bl[1], !.score = Some(bl[2]),
                        !.method = Some(snapshot_link_method(Val(bl[3]))),
                        !.matched_title = link_matched_title(ps, Val(bl[1]))]
    ELSE IF Truthy(tm[1]) /\ GE(tm[3], Score(55))
    THEN [result EXCEPT !.proposal_id = tm[1], !.matched_title = tm[2],
                        !.score = Some(tm[3]), !.method = Some(<<"t","i","t","l","e","_","f","u","z","z","y">>)]
    ELSE IF Truthy(bl[1]) /\ GE(bl[2], Score(60))
    THEN [result EXCEPT !.proposal_id = bl[1], !.score = Some(bl[2]),
                        !.method = Some(snapshot_link_method(Val(bl[3]))),
                        !.matched_title = link_matched_title(ps, Val(bl[1]))]
    ELSE [result EXCEPT !.score = Some(tm[3])]

\* the decision between the title match tm and the best link bl
snapshot_decide(ps, result, tm, bl) ==
    IF Truthy(tm[1]) /\ GE(tm[3], Score(70))
    THEN [result EXCEPT !.proposal_id = tm[1], !.matched_title = tm[2],
                        !.score = Some(tm[3]), !.method = Some(<<"t","i","t","l","e","_","f","u","z","z","y">>)]
    ELSE IF Truthy(bl[1]) /\ GE(bl[2], Score(70))
    THEN [result EXCEPT !.proposal_id = bl[1], !.score = Some(bl[2]),
                        !.method = Some(snapshot_link_method(Val(bl[3]))),
                        !.matched_title = link_matched_title(ps, Val(bl[1]))]
    ELSE IF Truthy(tm[1]) /\ GE(tm[3], Score(55))
    THEN [result EXCEPT !.proposal_id = tm[1], !.matched_title = tm[2],
                        !.score = Some(tm[3]), !.method = Some(<<"t","i","t","l","e","_","f","u","z","z","y">>)]
    ELSE IF Truthy(bl[1]) /\ GE(bl[2], Score(60))
    THEN [result EXCEPT !.proposal_id = bl[1], !.score = Some(bl[2]),
                        !.method = Some(snapshot_link_method(Val(bl[3]))),
                        !.matched_title = link_matched_title(ps, Val(bl[1]))]
    ELSE result

\* the result of an override hit
snapshot_override(ps, result, ov) ==
    [result EXCEPT !.proposal_id = ov,
                   !.method = Some(<<"m","a","n","u","a","l","_","o","v","e","r","r","i","d","e">>),
                   !.score = Some(Score(100)),
                   !.matched_title =
                       IF dict_has(proposal_by_id(ps), Val(ov))
                       THEN Some(dict_get(proposal_by_id(ps), Val(ov)).title)
                       ELSE Some(<<"M","a","n","u","a","l">>)]

\* title matching and forum link matching, the decision and the bucket
snapshot_links(ps, d, result, title, forum_links) ==
    snapshot_categorize(
        snapshot_decide(ps, [result EXCEPT !.forum_links = forum_links],
                        find_best_title_match(ps, title, 55),
                        best_link_scan(d, forum_links, 1, <<None, Score(0), None>>)))

\* a record that is no protocol vote, no election and no override
snapshot_resolve(ps, d, result, title, body) ==
    snapshot_links(ps, d, result, title, extract_forum_links(body))

\* the result of a snapshot record before any check
snapshot_result(s) ==
    [id |-> s.id, title |-> OrEmpty(s.title), author |-> s.author_name,
     proposal_id |-> None, matched_title |-> None, score |-> None,
     method |-> None, forum_links |-> <<>>, category |-> "standard"]

\* snapshot_match with the override check moved before the election check
snapshot_match_OverrideFirst(ps, d, s) ==
    LET title  == OrEmpty(s.title)
        body   == OrEmpty(s.body)
        result == snapshot_result(s)
        ov     == override_lookup(MANUAL_OVERRIDES_SNAPSHOT, title)
    IN  IF is_stip_ltipp_protocol(title)
        THEN <<"stip_ltipp", [result EXCEPT !.category = "stip_ltipp_protocol",
                                            !.forum_links = extract_forum_links(body)]>>
        ELSE IF Truthy(ov)
        THEN <<"matched_by_title", snapshot_override(ps, result, ov)>>
        ELSE IF is_election(title)
        THEN <<"elections", [result EXCEPT !.category = "election"]>>
        ELSE snapshot_resolve(ps, d, result, title, body)

\* the body of the snapshot loop
snapshot_match(ps, d, s) ==
    LET title  == OrEmpty(s.title)
        body   == OrEmpty(s.body)
        result == snapshot_result(s)
        ov     == override_lookup(MANUAL_OVERRIDES_SNAPSHOT, title)
    IN  IF is_stip_ltipp_protocol(title)
        THEN <<"stip_ltipp", [result EXCEPT !.category = "stip_ltipp_protocol",
                                            !.forum_links = extract_forum_links(body)]>>
        ELSE IF is_election(title)
        THEN <<"elections", [result EXCEPT !.category = "election"]>>
        ELSE IF Truthy(ov)
        THEN <<"matched_by_title", snapshot_override(ps, result, ov)>>
        ELSE snapshot_resolve(ps, d, result, title, body)

(***************************************************************************)
(* The body of the tally loop: <<bucket, result>> for one record.          *)
(***************************************************************************)
GarbageTitles == {<<"a","r","t"," ","d","r","a">>, <<"A","r","c","u","b","t","a","n","g">>, <<"A","I","P"," ","4">>}

RECURSIVE first_link_scan(_, _, _)
\* if p_id and score >= 70: ... break; r is the <<p_id, score>> of link n
first_link_step(d, forum_links, n, r) ==
    IF Truthy(r[1]) /\ GE(r[2], Score(70)) THEN r
    ELSE first_link_scan(d, forum_links, n + 1)

\* the loop over forum_links, from link n on: the first link that resolves
\* with score >= 70, as <<p_id, score>>; <<None, 0>> without one
first_link_scan(d, forum_links, n) ==
    IF n > Len(forum_links) THEN <<None, Score(0)>>
    ELSE first_link_step(d, forum_links, n, find_proposal_by_slug(d, forum_links[n][1]))

\* the bucket of a tally result after the decision
tally_categorize(result) ==
    IF Truthy(result.proposal_id)
    THEN IF GE(Val(result.score), Score(75))
         THEN <<"matched", result>>
         ELSE <<"low_confidence", [result EXCEPT !.category = "low_confidence"]>>
    ELSE <<"unmatched", result>>

\* the result of an override hit
tally_override(ps, result, ov) ==
    [result EXCEPT !.proposal_id = ov,
                   !.method = Some(<<"m","a","n","u","a","l","_","o","v","e","r","r","i","d","e">>),
                   !.score = Some(Score(100)),
                   !.matched_title =
                       IF dict_has(proposal_by_id(ps), Val(ov))
                       THEN Some(unescape(dict_get(proposal_by_id(ps), Val(ov)).title))
                       ELSE Some(<<"M","a","n","u","a","l">>)]

\* the manual override block: ov is the id of the first key that hits
tally_override_block(ps, result, ov) ==
    IF Truthy(ov) THEN tally_override(ps, result, ov) ELSE result

\* the assignments of the link loop: lk is the first link that resolved
tally_link_hit(ps, result, lk) ==
    IF Truthy(lk[1])
    THEN [result EXCEPT !.proposal_id = lk[1], !.score = Some(lk[2]),
                        !.method = Some(<<"f","o","r","u","m","_","l","i","n","k","_","s","l","u","g">>),
                        !.matched_title = link_matched_title(ps, Val(lk[1]))]
    ELSE result

\* the forum link block, entered without a proposal_id
tally_link_block(ps, d, result, description) ==
    IF ~Truthy(result.proposal_id)
    THEN tally_link_hit(ps, result,
                        first_link_scan(d, extract_forum_links(description), 1))
    ELSE result

\* the assignments of the title block: tm is the title match
tally_title_hit(result, tm) ==
    IF Truthy(tm[1])
    THEN [result EXCEPT !.proposal_id = tm[1], !.matched_title = tm[2],
                        !.score = Some(tm[3]), !.method = Some(<<"t","i","t","l","e","_","f","u","z","z","y">>)]
    ELSE result

\* the title block, entered without a proposal_id
tally_title_block(ps, result, title) ==
    IF ~Truthy(result.proposal_id)
    THEN tally_title_hit(result, find_best_title_match(ps, title, 60))
    ELSE result

\* tally_decide with the title block before the forum link block
tally_decide_TitleFirst(ps, d, result, title, description) ==
    tally_link_block(ps, d,
        tally_title_block(ps,
            tally_override_block(ps, result,
                                 override_lookup(MANUAL_OVERRIDES_TALLY, title)),
            title),
        description)

\* override, then forum links of the description, then the title
tally_decide(ps, d, result, title, description) ==
    tally_title_block(ps,
        tally_link_block(ps, d,
            tally_override_block(ps, result,
                                 override_lookup(MANUAL_OVERRIDES_TALLY, title)),
            description),
        title)

\* the result of a tally record before any check
tally_result(t) ==
    [id |-> t.id, title |-> OrEmpty(t.title), author |-> t.author_name,
     proposal_id |-> None, matched_title |-> None, score |-> None,
     method |-> None, category |-> "standard"]

tally_match(ps, d, t) ==
    LET title       == OrEmpty(t.title)
        description == OrEmpty(t.description)
        result      == tally_result(t)
    IN  IF title = <<>> \/ title \in GarbageTitles
        THEN <<"unmatched", [result EXCEPT !.category = "garbage"]>>
        ELSE tally_categorize(tally_decide(ps, d, result, title, description))

(***************************************************************************)
(* The loop bodies are pure, and the model's runs apply them to the same   *)
(* records again and again: their values on the model's inputs are         *)
(* computed once.                                                          *)
(***************************************************************************)
RECURSIVE slug_index_from(_, _, _)
\* the index after the whole loop that builds proposal_slugs
slug_index_from(ps, n, d) ==
    IF n > Len(ps) THEN d ELSE slug_index_from(ps, n + 1, slug_index_step(d, ps[n]))

IndexSteps ==
    [k \in {<<slug_index_from(SubSeq(u, 1, n - 1), 1, <<>>), u[n]>> :
               <<u, n>> \in {un \in (Universes \cup SlugUniverses) \X (1..4) : un[2] <= Len(un[1])}} |->
        slug_index_step(k[1], k[2])]
SnapshotMatches ==
    [k \in {<<u, slug_index_from(u, 1, <<>>), SnapshotRecord(n, r)>> :
               u \in Universes, n \in 1..MaxRecords, r \in SnapshotPool} |->
        snapshot_match(k[1], k[2], k[3])]
TallyMatches ==
    [k \in {<<u, slug_index_from(u, 1, <<>>), TallyRecord(n, r)>> :
               u \in Universes, n \in 1..MaxRecords, r \in TallyPool} |->
        tally_match(k[1], k[2], k[3])]

\* the body of the index loop, as the loop runs it
index_iteration(d, p) == IndexSteps[<<d, p>>]

\* the body of the snapshot loop, as the loop runs it
snapshot_iteration(ps, d, s) == SnapshotMatches[<<ps, d, s>>]

\* the body of the tally loop, as the loop runs it
tally_iteration(ps, d, t) == TallyMatches[<<ps, d, t>>]

(***************************************************************************)
(* The script as a state machine                                           *)
(***************************************************************************)
VARIABLES proposals, snapshot_stage, tally_stage, proposal_slugs, pc, idx,
          snapshot_results, tally_results, slug_query, slug_result,
          snapshot_id_to_proposal, tally_id_to_proposal,
          snapshot_stage_updated, tally_stage_updated

vars == <<proposals, snapshot_stage, tally_stage, proposal_slugs, pc, idx,
          snapshot_results, tally_results, slug_query, slug_result,
          snapshot_id_to_proposal, tally_id_to_proposal,
          snapshot_stage_updated, tally_stage_updated>>

\* the variables of the output section
outputs == <<snapshot_id_to_proposal, tally_id_to_proposal,
             snapshot_stage_updated, tally_stage_updated>>

EmptyOutputs ==
    /\ snapshot_id_to_proposal = <<>>
    /\ tally_id_to_proposal = <<>>
    /\ snapshot_stage_updated = <<>>
    /\ tally_stage_updated = <<>>

EmptyResults ==
    /\ snapshot_results = [matched_by_link |-> <<>>, matched_by_title |-> <<>>,
                           low_confidence |-> <<>>, stip_ltipp |-> <<>>,
                           elections |-> <<>>, unmatched |-> <<>>]
    /\ tally_results = [matched |-> <<>>, low_confidence |-> <<>>, unmatched |-> <<>>]

Init ==
    /\ proposals \in Universes
    /\ \E files \in StageFiles :
        /\ snapshot_stage = files[1]
        /\ tally_stage = files[2]
    /\ proposal_slugs = <<>>
    /\ pc = "index"
    /\ idx = 1
    /\ EmptyResults
    /\ EmptyOutputs
    /\ slug_query = None
    /\ slug_result = None

\* one iteration of the loop that builds proposal_slugs
BuildSlugIndex ==
    /\ pc = "index"
    /\ idx <= Len(proposals)
    /\ proposal_slugs' = index_iteration(proposal_slugs, proposals[idx])
    /\ idx' = idx + 1
    /\ UNCHANGED <<proposals, snapshot_stage, tally_stage, pc, snapshot_results,
                   tally_results, slug_query, slug_result, outputs>>

\* the index is complete; the snapshot loop starts
IndexBuilt ==
    /\ pc = "index"
    /\ idx > Len(proposals)
    /\ pc' = "snapshot"
    /\ idx' = 1
    /\ UNCHANGED <<proposals, snapshot_stage, tally_stage, proposal_slugs,
                   snapshot_results, tally_results, slug_query, slug_result, outputs>>

\* append_result without the final else branch: an unmatched result is dropped
append_result_DropsUnmatched(results, r) ==
    IF r[1] = "unmatched" THEN results ELSE [results EXCEPT ![r[1]] = Append(@, r[2])]

\* append_result that sends a result to unmatched when an earlier result of
\* the same list of buckets already has its proposal_id
append_result_SkipsTaken(results, r) ==
    IF /\ r[2].proposal_id # None
       /\ \E b \in DOMAIN results : \E n \in 1..Len(results[b]) :
             results[b][n].proposal_id = r[2].proposal_id
    THEN [results EXCEPT !["unmatched"] = Append(@, r[2])]
    ELSE [results EXCEPT ![r[1]] = Append(@, r[2])]

\* results[bucket].append(result), for r = <<bucket, result>>
append_result(results, r) == [results EXCEPT ![r[1]] = Append(@, r[2])]

\* one iteration of the snapshot loop
MatchSnapshot ==
    /\ pc = "snapshot"
    /\ idx <= Len(snapshot_stage)
    /\ snapshot_results' =
           append_result(snapshot_results,
                         snapshot_iteration(proposals, proposal_slugs, snapshot_stage[idx]))
    /\ idx' = idx + 1
    /\ UNCHANGED <<proposals, snapshot_stage, tally_stage, proposal_slugs, pc,
                   tally_results, slug_query, slug_result, outputs>>

\* the snapshot loop is over; the tally loop starts
SnapshotDone ==
    /\ pc = "snapshot"
    /\ idx > Len(snapshot_stage)
    /\ pc' = "tally"
    /\ idx' = 1
    /\ UNCHANGED <<proposals, snapshot_stage, tally_stage, proposal_slugs,
                   snapshot_results, tally_results, slug_query, slug_result, outputs>>

\* one iteration of the tally loop
MatchTally ==
    /\ pc = "tally"
    /\ idx <= Len(tally_stage)
    /\ tally_results' =
           append_result(tally_results,
                         tally_iteration(proposals, proposal_slugs, tally_stage[idx]))
    /\ idx' = idx + 1
    /\ UNCHANGED <<proposals, snapshot_stage, tally_stage, proposal_slugs, pc,
                   snapshot_results, slug_query, slug_result, outputs>>

\* the tally loop is over
TallyDone ==
    /\ pc = "tally"
    /\ idx > Len(tally_stage)
    /\ pc' = "collect"
    /\ UNCHANGED <<proposals, snapshot_stage, tally_stage, proposal_slugs, idx,
                   snapshot_results, tally_results, slug_query, slug_result, outputs>>

\* for r in results: id_to_proposal[r['id']] = r['proposal_id']
RECURSIVE collect_matches(_, _)
collect_matches(id_to_proposal, results) ==
    IF results = <<>> THEN id_to_proposal
    ELSE collect_matches(dict_set(id_to_proposal, results[1].id, results[1].proposal_id),
                         Drop(results, 1))

\* the two loops that collect the matches of the matched buckets
CollectMatches ==
    /\ pc = "collect"
    /\ snapshot_id_to_proposal' =
           collect_matches(collect_matches(<<>>, snapshot_results.matched_by_link),
                           snapshot_results.matched_by_title)
    /\ tally_id_to_proposal' = collect_matches(<<>>, tally_results.matched)
    /\ pc' = "update_snapshot"
    /\ idx' = 1
    /\ UNCHANGED <<proposals, snapshot_stage, tally_stage, proposal_slugs,
                   snapshot_results, tally_results, slug_query, slug_result,
                   snapshot_stage_updated, tally_stage_updated>>

\* s_copy = s.copy(); if s['id'] in id_to_proposal: s_copy['proposal_id'] = ...
update_record(id_to_proposal, s) ==
    IF dict_has(id_to_proposal, s.id)
    THEN [s EXCEPT !.proposal_id = Some(dict_get(id_to_proposal, s.id))]
    ELSE s

\* one iteration of the loop that builds snapshot_stage_updated
UpdateSnapshot ==
    /\ pc = "update_snapshot"
    /\ idx <= Len(snapshot_stage)
    /\ snapshot_stage_updated' =
           Append(snapshot_stage_updated,
                  update_record(snapshot_id_to_proposal, snapshot_stage[idx]))
    /\ idx' = idx + 1
    /\ UNCHANGED <<proposals, snapshot_stage, tally_stage, proposal_slugs, pc,
                   snapshot_results, tally_results, slug_query, slug_result,
                   snapshot_id_to_proposal, tally_id_to_proposal, tally_stage_updated>>

\* snapshot_stage_updated is complete; the loop over tally_stage starts
SnapshotUpdated ==
    /\ pc = "update_snapshot"
    /\ idx > Len(snapshot_stage)
    /\ pc' = "update_tally"
    /\ idx' = 1
    /\ UNCHANGED <<proposals, snapshot_stage, tally_stage, proposal_slugs,
                   snapshot_results, tally_results, slug_query, slug_result, outputs>>

\* one iteration of the loop that builds tally_stage_updated
UpdateTally ==
    /\ pc = "update_tally"
    /\ idx <= Len(tally_stage)
    /\ tally_stage_updated' =
           Append(tally_stage_updated,
                  update_record(tally_id_to_proposal, tally_stage[idx]))
    /\ idx' = idx + 1
    /\ UNCHANGED <<proposals, snapshot_stage, tally_stage, proposal_slugs, pc,
                   snapshot_results, tally_results, slug_query, slug_result,
                   snapshot_id_to_proposal, tally_id_to_proposal, snapshot_stage_updated>>

\* tally_stage_updated is complete; the two files are saved
TallyUpdated ==
    /\ pc = "update_tally"
    /\ idx > Len(tally_stage)
    /\ pc' = "done"
    /\ UNCHANGED <<proposals, snapshot_stage, tally_stage, proposal_slugs, idx,
                   snapshot_results, tally_results, slug_query, slug_result, outputs>>

Next ==
    \/ BuildSlugIndex
    \/ IndexBuilt
    \/ MatchSnapshot
    \/ SnapshotDone
    \/ MatchTally
    \/ TallyDone
    \/ CollectMatches
    \/ UpdateSnapshot
    \/ SnapshotUpdated
    \/ UpdateTally
    \/ TallyUpdated

Spec == Init /\ [][Next]_vars

(***************************************************************************)
(* SlugSpec: find_proposal_by_slug applied to every short slug, over the   *)
(* index built from a small proposals file.                                *)
(***************************************************************************)
SlugInit ==
    /\ proposals \in SlugUniverses
    /\ snapshot_stage = <<>>
    /\ tally_stage = <<>>
    /\ proposal_slugs = <<>>
    /\ pc = "index"
    /\ idx = 1
    /\ EmptyResults
    /\ EmptyOutputs
    /\ slug_query = None
    /\ slug_result = None

\* a call find_proposal_by_slug(slug) once the index is built
ResolveSlug ==
    /\ pc = "snapshot"
    /\ \E slug \in SlugInputs :
          /\ slug_query' = Some(slug)
          /\ slug_result' = Some(find_proposal_by_slug(proposal_slugs, slug))
    /\ UNCHANGED <<proposals, snapshot_stage, tally_stage, proposal_slugs, pc, idx,
                   snapshot_results, tally_results, outputs>>

SlugNext ==
    \/ BuildSlugIndex
    \/ IndexBuilt
    \/ ResolveSlug

SlugSpec == SlugInit /\ [][SlugNext]_vars

(***************************************************************************)
(* What the matchers say about the model's inputs, computed once: the      *)
(* properties below compare the results of the loops with these.           *)
(***************************************************************************)
PoolTitles == {OrEmpty(r.title) : r \in SnapshotPool \cup TallyPool}
PoolTexts == {OrEmpty(r.text) : r \in SnapshotPool \cup TallyPool}

TitleFacts ==
    [k \in {<<u, t>> : u \in Universes, t \in PoolTitles} |->
        [stip     |-> is_stip_ltipp_protocol(k[2]),
         election |-> is_election(k[2]),
         tm55     |-> find_best_title_match(k[1], k[2], 55),
         tm60     |-> find_best_title_match(k[1], k[2], 60)]]

LinkFacts ==
    [k \in {<<u, t>> : u \in Universes, t \in PoolTexts} |->
        LET d == slug_index_from(k[1], 1, <<>>)
            forum_links == extract_forum_links(k[2])
        IN  [forum_links |-> forum_links,
             best  |-> best_link_scan(d, forum_links, 1, <<None, Score(0), None>>),
             first |-> first_link_scan(d, forum_links, 1),
             resolved |-> [n \in 1..Len(forum_links) |->
                              [generic |-> is_generic_link(forum_links[n][1]),
                               match   |-> find_proposal_by_slug(d, forum_links[n][1])]]]]

\* the keys of an override table whose text occurs in the title, ignoring case
KeyHits(table, title) ==
    {n \in 1..Len(table) : Contains(lower(title), lower(table[n][1]))}
FirstKey(hits) == CHOOSE n \in hits : \A m \in hits : n <= m

OverrideFacts ==
    [t \in PoolTitles |->
        [tally    |-> KeyHits(MANUAL_OVERRIDES_TALLY, t),
         snapshot |-> KeyHits(MANUAL_OVERRIDES_SNAPSHOT, t)]]

SnapshotBuckets == {"matched_by_link", "matched_by_title", "low_confidence",
                    "stip_ltipp", "elections", "unmatched"}
TallyBuckets == {"matched", "low_confidence", "unmatched"}

\* the results produced so far, as <<bucket, result>>
SnapshotProduced ==
    {<<b, snapshot_results[b][n]>> : <<b, n>> \in
        {bn \in SnapshotBuckets \X (1..Len(snapshot_stage)) :
            bn[2] <= Len(snapshot_results[bn[1]])}}
TallyProduced ==
    {<<b, tally_results[b][n]>> : <<b, n>> \in
        {bn \in TallyBuckets \X (1..Len(tally_stage)) :
            bn[2] <= Len(tally_results[bn[1]])}}

\* the number of results with the id of record k, over all buckets
SnapshotCount(k) ==
    Cardinality({bn \in SnapshotBuckets \X (1..Len(snapshot_stage)) :
                    /\ bn[2] <= Len(snapshot_results[bn[1]])
                    /\ snapshot_results[bn[1]][bn[2]].id = snapshot_stage[k].id})
TallyCount(k) ==
    Cardinality({bn \in TallyBuckets \X (1..Len(tally_stage)) :
                    /\ bn[2] <= Len(tally_results[bn[1]])
                    /\ tally_results[bn[1]][bn[2]].id = tally_stage[k].id})

RECURSIVE SumLen(_, _)
SumLen(f, bs) ==
    IF bs = {} THEN 0
    ELSE LET b == CHOOSE b \in bs : TRUE IN Len(f[b]) + SumLen(f, bs \ {b})

\* the title and the text of the record a result was produced for
SnapshotTitle(r) == OrEmpty(snapshot_stage[r.id].title)
SnapshotBody(r) == OrEmpty(snapshot_stage[r.id].body)
TallyTitle(r) == OrEmpty(tally_stage[r.id].title)
TallyDescription(r) == OrEmpty(tally_stage[r.id].description)

\* what the matchers say about the record of a result
SnapshotTitleFacts(r) == TitleFacts[<<proposals, SnapshotTitle(r)>>]
SnapshotLinkFacts(r) == LinkFacts[<<proposals, SnapshotBody(r)>>]
TallyTitleFacts(r) == TitleFacts[<<proposals, TallyTitle(r)>>]
TallyLinkFacts(r) == LinkFacts[<<proposals, TallyDescription(r)>>]

\* a snapshot record that is no protocol vote and no election
SnapshotNotTerminal(r) ==
    ~SnapshotTitleFacts(r).stip /\ ~SnapshotTitleFacts(r).election
\* ... and whose title holds no key of the snapshot override table
SnapshotOpen(r) ==
    SnapshotNotTerminal(r) /\ OverrideFacts[SnapshotTitle(r)].snapshot = {}
\* a tally record that is not garbage
TallyNotGarbage(r) == TallyTitle(r) # <<>> /\ TallyTitle(r) \notin GarbageTitles
\* ... and whose title holds no key of the tally override table
TallyOpen(r) == TallyNotGarbage(r) /\ OverrideFacts[TallyTitle(r)].tally = {}

AtLeast(score, n) == GE(score, Score(n))

\* the result r carries the title match tm = <<id, title, score>>
UsesTitle(r, tm) ==
    /\ tm[1] # None
    /\ r.proposal_id = tm[1]
    /\ r.matched_title = tm[2]
    /\ r.score = Some(tm[3])
    /\ r.method = Some(<<"t","i","t","l","e","_","f","u","z","z","y">>)
\* the result r carries the link match <<id, score>> under a forum link method
UsesLink(r, id, score) ==
    /\ id # None
    /\ r.proposal_id = id
    /\ r.score = Some(score)
    /\ r.method # None
    /\ StartsWith(Val(r.method), <<"f","o","r","u","m","_","l","i","n","k","_","s","l","u","g">>)
\* the result r carries nothing
NoCandidate(r) ==
    r.proposal_id = None /\ r.score = None /\ r.method = None /\ r.matched_title = None

(***************************************************************************)
(* C1: once the snapshot loop is over every snapshot record has exactly    *)
(* one result, in exactly one snapshot bucket, and the sizes of the six    *)
(* buckets sum to the number of snapshot records; once the tally loop is   *)
(* over the same holds of the tally records and the three tally buckets.   *)
(***************************************************************************)
C1_OneResultPerRecord ==
    /\ pc \notin {"index", "snapshot"} =>
          /\ \A k \in 1..Len(snapshot_stage) : SnapshotCount(k) = 1
          /\ SumLen(snapshot_results, SnapshotBuckets) = Len(snapshot_stage)
    /\ pc \notin {"index", "snapshot", "tally"} =>
          /\ \A k \in 1..Len(tally_stage) : TallyCount(k) = 1
          /\ SumLen(tally_results, TallyBuckets) = Len(tally_stage)

\* both loops are over, with two snapshot results in different buckets or
\* two tally results in different buckets
C1_Witness ==
    /\ pc = "done"
    /\ \/ /\ Len(snapshot_stage) = 2
          /\ \E b \in SnapshotBuckets : Len(snapshot_results[b]) = 1
       \/ /\ Len(tally_stage) = 2
          /\ \E b \in TallyBuckets : Len(tally_results[b]) = 1

(***************************************************************************)
(* C2: in every bucket of both sources, a result has a proposal_id if and  *)
(* only if it has a score.                                                 *)
(***************************************************************************)
C2_CandidateIffScore ==
    /\ \A br \in SnapshotProduced : (br[2].proposal_id # None) <=> (br[2].score # None)
    /\ \A br \in TallyProduced : (br[2].proposal_id # None) <=> (br[2].score # None)

\* a snapshot result with both set next to one with neither, and the same
\* for tally results in some other run
C2_Witness ==
    /\ \E br \in SnapshotProduced \cup TallyProduced : br[2].proposal_id # None /\ br[2].score # None
    /\ \E br \in SnapshotProduced \cup TallyProduced : br[2].proposal_id = None /\ br[2].score = None

C4_LowConfidenceLinkUsed ==
    \A br \in SnapshotProduced :
        /\ SnapshotOpen(br[2])
        /\ ~AtLeast(SnapshotTitleFacts(br[2]).tm55[3], 55)
        /\ AtLeast(SnapshotLinkFacts(br[2]).best[2], 60)
        /\ ~AtLeast(SnapshotLinkFacts(br[2]).best[2], 70)
        => /\ br[1] = "low_confidence"
           /\ br[2].proposal_id # None
           /\ br[2].method # None
           /\ StartsWith(Val(br[2].method), <<"f","o","r","u","m","_","l","i","n","k","_","s","l","u","g">>)

(***************************************************************************)
(* C5, as stated: for a tally record that is not garbage and no override   *)
(* hit, a title match (minimum 60) is the result whenever there is one,    *)
(* a link that resolves with score >= 70 is the result only without a      *)
(* title match, and with neither the result has no candidate.              *)
(***************************************************************************)
C5_TitleBeforeLink ==
    \A br \in TallyProduced :
        TallyOpen(br[2]) =>
            LET tm == TallyTitleFacts(br[2]).tm60
                lk == TallyLinkFacts(br[2]).first
            IN  /\ tm[1] # None => UsesTitle(br[2], tm)
                /\ tm[1] = None /\ lk[1] # None => UsesLink(br[2], lk[1], lk[2])
                /\ tm[1] = None /\ lk[1] = None => NoCandidate(br[2])

(***************************************************************************)
(* C5, amended: for a tally record that is not garbage and no override     *)
(* hit, the first forum link of the description that resolves to a         *)
(* proposal with score >= 70 is the result whenever there is one, also     *)
(* when the title matches a proposal; the title match (minimum 60) is the  *)
(* result only when no link resolves; with neither the result has no       *)
(* candidate.                                                              *)
(***************************************************************************)
C5_LinkBeforeTitle ==
    \A br \in TallyProduced :
        TallyOpen(br[2]) =>
            LET tm == TallyTitleFacts(br[2]).tm60
                lk == TallyLinkFacts(br[2]).first
            IN  /\ lk[1] # None =>
                       /\ AtLeast(lk[2], 70)
                       /\ UsesLink(br[2], lk[1], lk[2])
                /\ lk[1] = None /\ tm[1] # None => UsesTitle(br[2], tm)
                /\ lk[1] = None /\ tm[1] = None =>
                       NoCandidate(br[2]) /\ br[1] = "unmatched"

\* a tally result that took a link although the title matches another
\* proposal, next to one that took the title match for want of a link
C5_Witness ==
    /\ \E br \in TallyProduced :
          /\ TallyOpen(br[2])
          /\ TallyTitleFacts(br[2]).tm60[1] # None
          /\ TallyLinkFacts(br[2]).first[1] # None
          /\ TallyLinkFacts(br[2]).first[1] # TallyTitleFacts(br[2]).tm60[1]
          /\ br[2].proposal_id = TallyLinkFacts(br[2]).first[1]
    /\ \E br \in TallyProduced :
          /\ TallyOpen(br[2])
          /\ TallyLinkFacts(br[2]).first[1] = None
          /\ br[2].method = Some(<<"t","i","t","l","e","_","f","u","z","z","y">>)

(***************************************************************************)
(* C6: a snapshot result of a record that is no protocol vote and no       *)
(* election is in matched_by_link or matched_by_title (by its method) when *)
(* it has a candidate and a score >= 70, in low_confidence when it has a   *)
(* candidate and a lower score, and in unmatched without a candidate; a    *)
(* tally result likewise in matched (score >= 75), low_confidence or       *)
(* unmatched.  A result in a high-confidence bucket has a candidate and a  *)
(* score at or above the threshold, one in low_confidence a candidate and  *)
(* a score below it.                                                       *)
(***************************************************************************)
C6_BucketFromCandidateAndScore ==
    /\ \A br \in SnapshotProduced :
          /\ SnapshotNotTerminal(br[2]) =>
                br[1] = IF br[2].proposal_id = None THEN "unmatched"
                        ELSE IF ~AtLeast(Val(br[2].score), 70) THEN "low_confidence"
                        ELSE IF Contains(Val(br[2].method), <<"f","o","r","u","m","_","l","i","n","k">>)
                        THEN "matched_by_link"
                        ELSE "matched_by_title"
          /\ br[1] \in {"matched_by_link", "matched_by_title"} =>
                br[2].proposal_id # None /\ AtLeast(Val(br[2].score), 70)
          /\ br[1] = "low_confidence" =>
                br[2].proposal_id # None /\ ~AtLeast(Val(br[2].score), 70)
    /\ \A br \in TallyProduced :
          /\ br[1] = IF br[2].proposal_id = None THEN "unmatched"
                     ELSE IF ~AtLeast(Val(br[2].score), 75) THEN "low_confidence"
                     ELSE "matched"
          /\ br[1] = "matched" =>
                br[2].proposal_id # None /\ AtLeast(Val(br[2].score), 75)
          /\ br[1] = "low_confidence" =>
                br[2].proposal_id # None /\ ~AtLeast(Val(br[2].score), 75)

\* a snapshot result in matched_by_link with score 70 exactly, next to a
\* tally result in low_confidence with a score of 70 or more
C6_Witness ==
    /\ \E br \in SnapshotProduced :
          br[1] = "matched_by_link" /\ br[2].score = Some(Score(70))
    /\ \E br \in TallyProduced :
          br[1] = "low_confidence" /\ AtLeast(Val(br[2].score), 70)

(***************************************************************************)
(* C7, as stated: a snapshot result of a record whose title matches an     *)
(* election pattern is in the elections bucket, without candidate and      *)
(* score, whatever override key the title holds and whatever the body.     *)
(***************************************************************************)
C7_ElectionAlways ==
    \A br \in SnapshotProduced :
        SnapshotTitleFacts(br[2]).election =>
            /\ br[1] = "elections"
            /\ br[2].proposal_id = None
            /\ br[2].score = None

(***************************************************************************)
(* C7, amended: a snapshot result of a record whose title matches an       *)
(* election pattern and no protocol vote (STIP/LTIPP) pattern is in the    *)
(* elections bucket with category election, without candidate, score and   *)
(* method and with no forum links recorded, whatever override key the      *)
(* title holds and whatever the body; with a protocol vote pattern in the  *)
(* title as well, the result is in the stip_ltipp bucket.                  *)
(***************************************************************************)
C7_ElectionUnlessProtocolVote ==
    \A br \in SnapshotProduced :
        SnapshotTitleFacts(br[2]).election =>
            IF SnapshotTitleFacts(br[2]).stip
            THEN br[1] = "stip_ltipp" /\ NoCandidate(br[2])
            ELSE /\ br[1] = "elections"
                 /\ br[2].category = "election"
                 /\ NoCandidate(br[2])
                 /\ br[2].forum_links = <<>>

\* an election result whose title holds a snapshot override key, next to an
\* election result whose body holds a link that resolves to a proposal
C7_Witness ==
    /\ \E br \in SnapshotProduced :
          /\ br[1] = "elections"
          /\ OverrideFacts[SnapshotTitle(br[2])].snapshot # {}
    /\ \E br \in SnapshotProduced :
          /\ br[1] = "elections"
          /\ SnapshotLinkFacts(br[2]).best[1] # None

(***************************************************************************)
(* C8, as stated: a result of a record that is not terminally classified   *)
(* (snapshot: no protocol vote, no election; tally: not garbage) and whose *)
(* title holds a key of the override table has the id of the first such    *)
(* key in table order, score 100 and method manual_override, and is in a   *)
(* high-confidence bucket; the table with the 'ArbOS 20' key serves both   *)
(* sources.                                                                *)
(***************************************************************************)
C8_OverrideInBothSources ==
    /\ \A br \in SnapshotProduced :
          SnapshotNotTerminal(br[2]) /\ OverrideFacts[SnapshotTitle(br[2])].tally # {} =>
              /\ br[1] = "matched_by_title"
              /\ br[2].proposal_id =
                    Some(MANUAL_OVERRIDES_TALLY[FirstKey(OverrideFacts[SnapshotTitle(br[2])].tally)][2])
              /\ br[2].score = Some(Score(100))
              /\ br[2].method = Some(<<"m","a","n","u","a","l","_","o","v","e","r","r","i","d","e">>)
    /\ \A br \in TallyProduced :
          TallyNotGarbage(br[2]) /\ OverrideFacts[TallyTitle(br[2])].tally # {} =>
              /\ br[1] = "matched"
              /\ br[2].proposal_id =
                    Some(MANUAL_OVERRIDES_TALLY[FirstKey(OverrideFacts[TallyTitle(br[2])].tally)][2])
              /\ br[2].score = Some(Score(100))
              /\ br[2].method = Some(<<"m","a","n","u","a","l","_","o","v","e","r","r","i","d","e">>)

(***************************************************************************)
(* C8, amended: each source has its own override table.  A snapshot result *)
(* of a record that is no protocol vote and no election and whose title    *)
(* holds a key of MANUAL_OVERRIDES_SNAPSHOT, and a tally result of a       *)
(* record that is not garbage and whose title holds a key of               *)
(* MANUAL_OVERRIDES_TALLY, has the id of the first such key in table       *)
(* order, score 100 and method manual_override, and is in matched_by_title *)
(* (snapshot) or matched (tally), whatever the title and link matchers     *)
(* find.  A snapshot record whose title holds only keys of the tally table *)
(* ('ArbOS 20 Upgrade Discussion') is not overridden.                      *)
(***************************************************************************)
C8_OverridePerSource ==
    /\ \A br \in SnapshotProduced :
          SnapshotNotTerminal(br[2]) =>
              IF OverrideFacts[SnapshotTitle(br[2])].snapshot # {}
              THEN /\ br[1] = "matched_by_title"
                   /\ br[2].proposal_id =
                         Some(MANUAL_OVERRIDES_SNAPSHOT[FirstKey(OverrideFacts[SnapshotTitle(br[2])].snapshot)][2])
                   /\ br[2].score = Some(Score(100))
                   /\ br[2].method = Some(<<"m","a","n","u","a","l","_","o","v","e","r","r","i","d","e">>)
              ELSE br[2].method # Some(<<"m","a","n","u","a","l","_","o","v","e","r","r","i","d","e">>)
    /\ \A br \in TallyProduced :
          TallyNotGarbage(br[2]) /\ OverrideFacts[TallyTitle(br[2])].tally # {} =>
              /\ br[1] = "matched"
              /\ br[2].proposal_id =
                    Some(MANUAL_OVERRIDES_TALLY[FirstKey(OverrideFacts[TallyTitle(br[2])].tally)][2])
              /\ br[2].score = Some(Score(100))
              /\ br[2].method = Some(<<"m","a","n","u","a","l","_","o","v","e","r","r","i","d","e">>)

\* a tally result overridden by the first of two keys its title holds, with
\* a link in the description that resolves or a snapshot result overridden
\* although its body link resolves to another proposal
C8_Witness ==
    /\ \E br \in TallyProduced :
          /\ Cardinality(OverrideFacts[TallyTitle(br[2])].tally) = 2
          /\ br[2].method = Some(<<"m","a","n","u","a","l","_","o","v","e","r","r","i","d","e">>)
    /\ \/ \E br \in TallyProduced :
             /\ TallyLinkFacts(br[2]).first[1] # None
             /\ br[2].method = Some(<<"m","a","n","u","a","l","_","o","v","e","r","r","i","d","e">>)
       \/ \E br \in SnapshotProduced :
             /\ SnapshotLinkFacts(br[2]).best[1] # None
             /\ br[2].method = Some(<<"m","a","n","u","a","l","_","o","v","e","r","r","i","d","e">>)

(***************************************************************************)
(* C9: a result of a record with an absent or empty title has no           *)
(* candidate, whatever the body or description: a tally result is in       *)
(* unmatched with category garbage, a snapshot result is in unmatched.     *)
(***************************************************************************)
C9_EmptyTitleNoCandidate ==
    /\ \A br \in TallyProduced :
          TallyTitle(br[2]) = <<>> =>
              /\ br[1] = "unmatched"
              /\ br[2].category = "garbage"
              /\ br[2].proposal_id = None
    /\ \A br \in SnapshotProduced :
          SnapshotTitle(br[2]) = <<>> =>
              /\ br[1] = "unmatched"
              /\ br[2].proposal_id = None

(***************************************************************************)
(* C10: find_proposal_by_slug on a non-empty slug returns the id stored    *)
(* under the slug and 100 when the slug is a key of the index; otherwise,  *)
(* with best the greatest similarity of the slug to a key (0 for an empty  *)
(* index), it returns the id of the first key, in index order, whose       *)
(* similarity is best, and best, when best >= 70, and None and best when   *)
(* best < 70.  An id is never returned with a score below 70.              *)
(***************************************************************************)
C10_SlugResolution ==
    slug_query # None =>
        LET slug == Val(slug_query)
            res  == Val(slug_result)
            keys == 1..Len(proposal_slugs)
            sim(n) == ratio(slug, proposal_slugs[n][1])
            best == IF keys = {} THEN Score(0) ELSE MaxOf({sim(n) : n \in keys})
        IN  /\ IF \E n \in keys : proposal_slugs[n][1] = slug
               THEN \E n \in keys : /\ proposal_slugs[n][1] = slug
                                    /\ res = <<Some(proposal_slugs[n][2]), Score(100)>>
               ELSE IF AtLeast(best, 70)
               THEN \E n \in keys : /\ sim(n) = best
                                    /\ \A m \in 1..(n - 1) : sim(m) # best
                                    /\ res = <<Some(proposal_slugs[n][2]), best>>
               ELSE res = <<None, best>>
            /\ res[1] # None => AtLeast(res[2], 70)

\* a slug that is no key, with two keys of different proposals at the best
\* similarity, which is 70 or more, resolved to the proposal of the first
C10_Witness ==
    /\ slug_query # None
    /\ ~dict_has(proposal_slugs, Val(slug_query))
    /\ Val(slug_result)[1] # None
    /\ \E n \in 1..Len(proposal_slugs) : \E m \in (n + 1)..Len(proposal_slugs) :
          /\ ratio(Val(slug_query), proposal_slugs[n][1]) = Val(slug_result)[2]
          /\ ratio(Val(slug_query), proposal_slugs[m][1]) = Val(slug_result)[2]
          /\ proposal_slugs[n][2] # proposal_slugs[m][2]
          /\ Val(slug_result)[1] = Some(proposal_slugs[n][2])

\* record.get('proposal_id'): the value of the key, None for a record without it
get_proposal_id(record) ==
    IF record.proposal_id = None THEN None ELSE Val(record.proposal_id)
\* the records a and b agree on every key other than proposal_id
SameOtherFields(a, b) ==
    [a EXCEPT !.proposal_id = None] = [b EXCEPT !.proposal_id = None]
\* the copy is the k-th record of the stage file with the proposal_id of the
\* record's result among produced, None (null) included
CarriesAssigned(copy, record, produced) ==
    /\ SameOtherFields(copy, record)
    /\ \A br \in produced :
          br[2].id = record.id => get_proposal_id(copy) = br[2].proposal_id

(***************************************************************************)
(* C11: the k-th record of an updated copy is the k-th record of the stage *)
(* file with its other keys unchanged, and its proposal_id is the          *)
(* proposal_id of the record's result: the candidate id when one was       *)
(* assigned, null (or no key) when none was, whatever the stage file held  *)
(* under the key; a complete copy has as many records as the stage file.   *)
(***************************************************************************)
C11_OutputCarriesAssignedId ==
    /\ \A k \in 1..Len(snapshot_stage_updated) :
          CarriesAssigned(snapshot_stage_updated[k], snapshot_stage[k], SnapshotProduced)
    /\ \A k \in 1..Len(tally_stage_updated) :
          CarriesAssigned(tally_stage_updated[k], tally_stage[k], TallyProduced)
    /\ pc \in {"update_tally", "done"} =>
          Len(snapshot_stage_updated) = Len(snapshot_stage)
    /\ pc = "done" => Len(tally_stage_updated) = Len(tally_stage)

\* the complete index of each proposals file
FullIndex == [k \in {<<u>> : u \in Universes} |-> slug_index_from(k[1], 1, <<>>)]
\* <<bucket, result>> of the stage file that holds the record alone
SnapshotAlone(s) ==
    snapshot_iteration(proposals, FullIndex[<<proposals>>], [s EXCEPT !.id = 1])
TallyAlone(t) ==
    tally_iteration(proposals, FullIndex[<<proposals>>], [t EXCEPT !.id = 1])
\* the results of a bucket are in the order of their records
InRecordOrder(results) ==
    \A n \in 1..(Len(results) - 1) : results[n].id < results[n + 1].id

OpenLinks(facts) == {n \in 1..Len(facts.resolved) : ~facts.resolved[n].generic}
\* the first link of ns with the greatest score
TopLink(facts, ns) ==
    CHOOSE n \in ns : \A m \in ns :
        /\ GE(facts.resolved[n].match[2], facts.resolved[m].match[2])
        /\ m < n => GT(facts.resolved[n].match[2], facts.resolved[m].match[2])
\* <<p_id, score>> of the highest-scoring link that is no generic reference
TopOpenMatch(facts) ==
    IF OpenLinks(facts) = {} THEN <<None, Score(0)>>
    ELSE facts.resolved[TopLink(facts, OpenLinks(facts))].match
\* the result r was decided by a forum link
ByLink(r) == r.method # None /\ StartsWith(Val(r.method), <<"f","o","r","u","m","_","l","i","n","k","_","s","l","u","g">>)

\* snapshot loop: the best link is the highest-scoring link that is no
\* generic reference, and a result decided by a link carries its match
SnapshotLinkIsTop ==
    \A br \in SnapshotProduced :
        SnapshotOpen(br[2]) =>
            /\ <<SnapshotLinkFacts(br[2]).best[1], SnapshotLinkFacts(br[2]).best[2]>>
                  = TopOpenMatch(SnapshotLinkFacts(br[2]))
            /\ ByLink(br[2]) =>
                  <<br[2].proposal_id, Val(br[2].score)>> = TopOpenMatch(SnapshotLinkFacts(br[2]))
\* tally loop: a result decided by a link carries the match of the
\* highest-scoring link that is no generic reference
TallyLinkIsTop ==
    \A br \in TallyProduced :
        ByLink(br[2]) =>
            <<br[2].proposal_id, Val(br[2].score)>> = TopOpenMatch(TallyLinkFacts(br[2]))

(***************************************************************************)
(* C13: in both sources, the link candidate of a record is the slug match  *)
(* of the highest-scoring extracted link that is no generic reference      *)
(* (short-term-incentive, stip, arbitrum-arbos-upgrades): a result decided *)
(* by a link never carries the match of a generic link or of a link with a *)
(* lower score than another one of the record.                             *)
(***************************************************************************)
C13_LinkCandidateIsTopOpenLink == SnapshotLinkIsTop /\ TallyLinkIsTop

\* generate_prompts.is_skip_tally: no title, a title whose trimmed text is
\* in the block-list, or a trimmed title of fewer than 3 characters
is_skip_tally(title) ==
    \/ title = <<>>
    \/ Strip(title, SpaceSet) \in GarbageTitles
    \/ Len(Strip(title, SpaceSet)) < 3

(***************************************************************************)
(* C14: a tally record whose title is in the literal block-list or whose   *)
(* trimmed title has fewer than 3 characters is garbage: its result is in  *)
(* unmatched with category garbage and carries no candidate, no score, no  *)
(* method and no matched title (no override, link or title match ran).     *)
(***************************************************************************)
C14_GarbageNeverMatched ==
    \A br \in TallyProduced :
        is_skip_tally(TallyTitle(br[2])) =>
            /\ br[1] = "unmatched"
            /\ br[2].category = "garbage"
            /\ NoCandidate(br[2])

====
